---------------------------- MODULE Spec2Model ----------------------------
(***************************************************************************)
(* A model of src/main.py: the follower-count service (FastAPI handlers    *)
(* over one asyncio event loop, a time-boxed cache, a bounded admission    *)
(* queue and a layered extraction chain).                                  *)
(*                                                                         *)
(* Strings are sequences of one-character strings (<<"4", ".", "1", "M">>  *)
(* is "4.1M"), so that strip, replace, lower, regex matching and number    *)
(* formatting are computed character by character as the code does.        *)
(* Python's unbounded ints are canonical decimal digit sequences; Python's *)
(* floats are IEEE-754 doubles, modelled bit-exactly (53-bit significand,  *)
(* round to nearest even) on big-endian bit sequences.                     *)
(***************************************************************************)
EXTENDS Integers, Sequences, FiniteSets, Bags, TLC

VARIABLES
    cache,          \* app_state.cache: cache key -> [followers, timestamp]
    request_queue,  \* app_state.request_queue: the usernames it holds, FIFO
    now,            \* the wall clock read by datetime.now(), in seconds
    tasks,          \* the suspended get_followers_endpoint coroutines (a bag)
    open_pages,     \* pages of app_state.context that are open
    event,          \* what the step just taken did (a response, a suspension, ...)
    queue_task,     \* the await process_queue is suspended at
    arg,            \* the argument a pure function is called with
    ret             \* <<>> before the call, <<its result>> after

vars ==
    <<cache, request_queue, now, tasks, open_pages, event, queue_task, arg,
      ret>>

(***************************************************************************)
(* Bounds of the model.                                                    *)
(***************************************************************************)
MaxTicks == 2        \* the clock advances at most this many times
MaxInFlight == 2     \* requests in flight at once under Spec
MaxRawLen == 4       \* longest raw count handed to format_followers alone
MaxTargetLen == 3    \* longest target handed to the username validation alone
MaxBusy == 11        \* requests and sweeps in flight at once under SpecQueue
MaxSweeps == 1       \* sweeps pending when a request arrives under SpecFair

(***************************************************************************)
(* Characters and strings.                                                 *)
(***************************************************************************)
LowerLetters == <<"a","b","c","d","e","f","g","h","i","j","k","l","m",
                  "n","o","p","q","r","s","t","u","v","w","x","y","z">>
UpperLetters == <<"A","B","C","D","E","F","G","H","I","J","K","L","M",
                  "N","O","P","Q","R","S","T","U","V","W","X","Y","Z">>
DigitChars == <<"0","1","2","3","4","5","6","7","8","9">>

Range(s) == {s[i] : i \in DOMAIN s}

IsDigitChar(c) == c \in Range(DigitChars)

DigitVal(c) == (CHOOSE i \in DOMAIN DigitChars : DigitChars[i] = c) - 1

\* str.isspace() on the characters the model uses
Whitespace == {" ", "\t", "\n"}

\* str.lower(), character by character
LowerChar(c) ==
    IF c \in Range(UpperLetters)
    THEN LowerLetters[CHOOSE i \in DOMAIN UpperLetters : UpperLetters[i] = c]
    ELSE c

Lower(s) == [i \in DOMAIN s |-> LowerChar(s[i])]

\* str.strip(): drops leading and trailing whitespace
RECURSIVE LStrip(_)
LStrip(s) == IF s # <<>> /\ Head(s) \in Whitespace THEN LStrip(Tail(s)) ELSE s

RECURSIVE RStrip(_)
RStrip(s) ==
    IF s # <<>> /\ s[Len(s)] \in Whitespace
    THEN RStrip(SubSeq(s, 1, Len(s) - 1))
    ELSE s

Strip(s) == RStrip(LStrip(s))

\* str.replace(c, ""): drops every occurrence of the character c
RemoveAll(s, c) == LET Keep(x) == x # c IN SelectSeq(s, Keep)

\* str.isdigit() (on ASCII): non-empty and every character a digit
IsDigit(s) == s # <<>> /\ \A i \in DOMAIN s : IsDigitChar(s[i])

\* all sequences over S of length at most n
SeqsUpTo(S, n) == UNION {[1..k -> S] : k \in 0..n}

(***************************************************************************)
(* get_cache_key: md5 of the lower-cased username.  md5 is modelled as     *)
(* injective (the key is the lower-cased username itself).                 *)
(***************************************************************************)
\* faulty variant: the username is hashed as given
GetCacheKeyCaseSensitive(username) == username

get_cache_key(username) == Lower(username)

(***************************************************************************)
(* Username validation of get_followers_endpoint (lines 348-355).          *)
(***************************************************************************)
UsernameChars ==
    Range(LowerLetters) \cup Range(UpperLetters) \cup Range(DigitChars)
        \cup {".", "_", "-"}

\* re.match(r'^[a-zA-Z0-9._-]+$', s): one or more allowed characters up to
\* the end of the string, where $ also matches just before a final newline
MatchesUsernamePattern(s) ==
    LET body == IF s # <<>> /\ s[Len(s)] = "\n"
                THEN SubSeq(s, 1, Len(s) - 1) ELSE s
        Whole(t) == t # <<>> /\ \A i \in DOMAIN t : t[i] \in UsernameChars
    IN  Whole(s) \/ Whole(body)

\* username.strip().replace("@", "")
NormalizeUsername(target) == RemoveAll(Strip(target), "@")

DetailRequired == "Username is required"
DetailInvalid == "Invalid username format"

\* the outcome of lines 348-355: a 400 with its detail, or the username the
\* rest of the handler works with (status 0: no response yet)
ValidateUsername(target) ==
    IF target = <<>> \/ Strip(target) = <<>>
    THEN [status |-> 400, detail |-> DetailRequired, username |-> <<>>]
    ELSE IF ~MatchesUsernamePattern(NormalizeUsername(target))
    THEN [status |-> 400, detail |-> DetailInvalid,
          username |-> NormalizeUsername(target)]
    ELSE [status |-> 0, detail |-> "", username |-> NormalizeUsername(target)]


(***************************************************************************)
(* Python numbers.  An int is a bit sequence, most significant bit first,  *)
(* without leading zeros (<<>> is 0); a float is [m, e], the double whose  *)
(* value is m * 2^e, m an int of at most 53 bits.                          *)
(***************************************************************************)
RECURSIVE IntToBits(_)
IntToBits(n) == IF n = 0 THEN <<>> ELSE Append(IntToBits(n \div 2), n % 2)

\* drops leading zero bits
Norm(bits) ==
    IF \E i \in DOMAIN bits : bits[i] = 1
    THEN SubSeq(bits, CHOOSE i \in DOMAIN bits :
                        bits[i] = 1 /\ \A j \in 1..(i - 1) : bits[j] = 0,
                Len(bits))
    ELSE <<>>

Zeros(n) == [i \in 1..n |-> 0]

\* the one element of a singleton set.  Single({e}) evaluates e at once, so
\* a value that later steps build on is computed before they start
Single(S) == CHOOSE x \in S : TRUE

\* bits * m + carry for a machine-sized m, computed by halves, low half
\* first (the running carry stays below m): the low Len(bits) bits of the
\* result and the carry out
RECURSIVE MulFrom(_, _, _)
MulFrom(bits, m, carry) ==
    IF bits = <<>> THEN [b |-> <<>>, c |-> carry]
    ELSE IF Len(bits) = 1
    THEN LET t == bits[1] * m + carry IN [b |-> <<t % 2>>, c |-> t \div 2]
    ELSE LET h == Len(bits) \div 2
         IN  Single(UNION {
                 {[b |-> hi.b \o lo.b, c |-> hi.c] :
                     hi \in {MulFrom(SubSeq(bits, 1, h), m, lo.c)}} :
                 lo \in {MulFrom(SubSeq(bits, h + 1, Len(bits)), m, carry)}})

MulAcc(bits, m, carry) ==
    LET p == MulFrom(bits, m, carry) IN IntToBits(p.c) \o p.b

\* (rem * 2^Len(bits) + bits) divided by a machine-sized d, computed by
\* halves, high half first: quotient bits (as many as bits) and remainder
RECURSIVE DivFrom(_, _, _)
DivFrom(bits, d, rem) ==
    IF bits = <<>> THEN [q |-> <<>>, r |-> rem]
    ELSE IF Len(bits) = 1
    THEN LET t == 2 * rem + bits[1] IN [q |-> <<t \div d>>, r |-> t % d]
    ELSE LET h == Len(bits) \div 2
         IN  Single(UNION {
                 {[q |-> hi.q \o lo.q, r |-> lo.r] :
                     lo \in {DivFrom(SubSeq(bits, h + 1, Len(bits)), d, hi.r)}} :
                 hi \in {DivFrom(SubSeq(bits, 1, h), d, rem)}})

DivBits(bits, d) == DivFrom(bits, d, 0)

\* bits + 1
Inc(bits) ==
    IF \E i \in DOMAIN bits : bits[i] = 0
    THEN LET z == CHOOSE i \in DOMAIN bits :
                    bits[i] = 0 /\ \A j \in (i + 1)..Len(bits) : bits[j] = 1
         IN  SubSeq(bits, 1, z - 1) \o <<1>> \o Zeros(Len(bits) - z)
    ELSE <<1>> \o Zeros(Len(bits))

RECURSIVE Pow10(_)
Pow10(k) == IF k = 0 THEN 1 ELSE 10 * Pow10(k - 1)

\* the int a digit string denotes
RECURSIVE DecToBits(_)
DecToBits(digits) ==
    IF digits = <<>> THEN <<>>
    ELSE Norm(MulAcc(DecToBits(SubSeq(digits, 1, Len(digits) - 1)), 10,
                     DigitVal(digits[Len(digits)])))

\* str(n) of an int
RECURSIVE BitsToDecRec(_)
BitsToDecRec(bits) ==
    IF Norm(bits) = <<>> THEN <<>>
    ELSE LET dv == DivBits(Norm(bits), 10)
         IN  Append(BitsToDecRec(dv.q), DigitChars[dv.r + 1])

BitsToDec(bits) == IF Norm(bits) = <<>> THEN <<"0">> ELSE BitsToDecRec(bits)

Significand == 53    \* bits of a double's significand

\* an int of any length (with sticky: a non-zero part below it was already
\* dropped) rounded to 53 bits, nearest-even: the kept bits and how many
\* low bits were dropped
Round53(bits, sticky) ==
    IF Len(bits) <= Significand
    THEN [m |-> bits, e |-> 0]
    ELSE LET keep == SubSeq(bits, 1, Significand)
             guard == bits[Significand + 1]
             st == sticky \/ \E i \in (Significand + 2)..Len(bits) : bits[i] = 1
             up == guard = 1 /\ (st \/ keep[Significand] = 1)
             r == IF up THEN Inc(keep) ELSE keep
             dropped == Len(bits) - Significand
         IN  IF Len(r) > Significand
             THEN [m |-> SubSeq(r, 1, Significand), e |-> dropped + 1]
             ELSE [m |-> r, e |-> dropped]

\* float(s) for s = digits [. digits]: the double nearest to the decimal
\* int(whole ++ frac) / 10^Len(frac)
PyFloat(whole, frac) ==
    LET n == DecToBits(whole \o frac)
        k == Len(frac)
        shift == Significand + 1 + 4 * k
        dv == DivBits(n \o Zeros(shift), Pow10(k))
        rd == Round53(Norm(dv.q), dv.r # 0)
    IN  IF n = <<>> THEN [m |-> <<>>, e |-> 0]
        ELSE [m |-> rd.m, e |-> rd.e - shift]

\* x * m for a float x and an int m below 2^30: the exact product, rounded
PyFloatTimes(x, m) ==
    LET rd == Round53(Norm(MulAcc(x.m, m, 0)), FALSE)
    IN  [m |-> rd.m, e |-> x.e + rd.e]

\* int(x) of a non-negative float: truncation
PyTrunc(x) ==
    IF x.e >= 0 THEN Norm(x.m \o Zeros(x.e))
    ELSE IF -x.e >= Len(x.m) THEN <<>>
    ELSE SubSeq(x.m, 1, Len(x.m) + x.e)

\* float(s) raises ValueError unless s is digits with at most one point and
\* at least one digit (the other forms float() accepts, an exponent, a sign,
\* inf, nan, underscores, need characters no raw count contains)
IsFloatLiteral(s) ==
    /\ \A i \in DOMAIN s : IsDigitChar(s[i]) \/ s[i] = "."
    /\ Cardinality({i \in DOMAIN s : s[i] = "."}) <= 1
    /\ \E i \in DOMAIN s : IsDigitChar(s[i])

WholePart(s) ==
    IF \E i \in DOMAIN s : s[i] = "."
    THEN SubSeq(s, 1, (CHOOSE i \in DOMAIN s : s[i] = ".") - 1)
    ELSE s

FracPart(s) ==
    IF \E i \in DOMAIN s : s[i] = "."
    THEN SubSeq(s, (CHOOSE i \in DOMAIN s : s[i] = ".") + 1, Len(s))
    ELSE <<>>

\* f"{n:,}" of an int given as its decimal digits
RECURSIVE GroupThousands(_)
GroupThousands(digits) ==
    IF Len(digits) <= 3 THEN digits
    ELSE GroupThousands(SubSeq(digits, 1, Len(digits) - 3))
            \o <<",">> \o SubSeq(digits, Len(digits) - 2, Len(digits))

(***************************************************************************)
(* format_followers (lines 269-299).  "numeric" is the int's decimal       *)
(* digits.                                                                 *)
(***************************************************************************)
Multiplier(suffix) ==
    CASE suffix \in {"K", "k"} -> 1000
      [] suffix \in {"M", "m"} -> 1000000
      [] suffix \in {"B", "b"} -> 1000000000

Suffixes == {"K", "M", "B", "k", "m", "b"}

Unknown == <<"U","n","k","n","o","w","n">>

\* int(float(count[:-1]) * multipliers[suffix])
ScaledValue(coeff, suffix) ==
    PyTrunc(PyFloatTimes(PyFloat(WholePart(coeff), FracPart(coeff)),
                         Multiplier(suffix)))

format_followers(count) ==
    IF count = <<>>
    THEN [raw |-> <<"0">>, formatted |-> Unknown, numeric |-> <<"0">>]
    ELSE IF IsDigit(count)
    THEN LET numeric_value == BitsToDec(DecToBits(count))
         IN  [raw |-> count, formatted |-> GroupThousands(numeric_value),
              numeric |-> numeric_value]
    ELSE LET suffix == count[Len(count)]
             coeff == SubSeq(count, 1, Len(count) - 1)
         IN  IF suffix \in Suffixes /\ IsFloatLiteral(coeff)
             THEN LET numeric_value == BitsToDec(ScaledValue(coeff, suffix))
                  IN  [raw |-> count,
                       formatted |-> GroupThousands(numeric_value),
                       numeric |-> numeric_value]
             ELSE [raw |-> count, formatted |-> count, numeric |-> <<"0">>]


(***************************************************************************)
(* Python values.  None is a value apart from every string; "if x" holds   *)
(* of a string exactly when it is non-empty.                               *)
(***************************************************************************)
None == <<"None">>

Truthy(v) == v # None /\ v # <<>>

(***************************************************************************)
(* AppState (lines 19-27) and the cache helpers (lines 111-117).           *)
(***************************************************************************)
cache_timeout == 300            \* seconds

request_queue_maxsize == 10

\* asyncio.Queue.full()
Full(q) == Len(q) >= request_queue_maxsize

\* faulty variant: the check lets one request too many through
BusyOffByOne(q) == Len(q) > request_queue_maxsize

\* the rate-limiting check of get_followers_endpoint (lines 358-359)
Busy(q) == Full(q)

\* faulty variant: the finally block takes nothing from the queue
DequeueNothing(q) == q

\* the finally block of get_followers_endpoint: get_nowait() takes the head,
\* and QueueEmpty is swallowed
Dequeue(q) == IF q = <<>> THEN q ELSE Tail(q)

\* faulty variant: an entry of age cache_timeout still counts as valid
IsCacheValidInclusive(cache_entry, t) ==
    (t - cache_entry.timestamp) <= cache_timeout

\* is_cache_valid, with datetime.now() = t
is_cache_valid(cache_entry, t) == (t - cache_entry.timestamp) < cache_timeout

\* app_state.cache[key] = {"followers": ..., "timestamp": datetime.now()}
CacheStore(c, key, followers, t) ==
    [k \in DOMAIN c \cup {key} |->
        IF k = key THEN [followers |-> followers, timestamp |-> t] ELSE c[k]]

\* del app_state.cache[key]
CacheDelete(c, key) == [k \in DOMAIN c \ {key} |-> c[k]]

\* faulty variant: without the test of line 245 the entry of a key that is
\* not in the cache is read all the same
CacheLookupUnguarded(c, key, t) ==
    IF key \in DOMAIN c
    THEN IF is_cache_valid(c[key], t)
         THEN [found |-> "hit", followers |-> c[key].followers, cache |-> c,
               error |-> ""]
         ELSE [found |-> "stale", followers |-> None,
               cache |-> CacheDelete(c, key), error |-> ""]
    ELSE [found |-> "absent", followers |-> None, cache |-> c,
          error |-> "KeyError"]

\* lines 244-251 of get_followers_count: what the lookup finds, the cache
\* it leaves, and the exception it raises, if any (a KeyError for a key
\* that is read or deleted when it is not in the cache)
CacheLookup(c, key, t) ==
    IF key \in DOMAIN c
    THEN IF is_cache_valid(c[key], t)
         THEN [found |-> "hit", followers |-> c[key].followers, cache |-> c,
               error |-> ""]
         ELSE [found |-> "stale", followers |-> None,
               cache |-> CacheDelete(c, key), error |-> ""]
    ELSE [found |-> "absent", followers |-> None, cache |-> c, error |-> ""]

\* faulty variant: line 405 without its "not"
CleanupValidEntries(c, t) ==
    LET expired_keys == {k \in DOMAIN c : is_cache_valid(c[k], t)}
    IN  [k \in DOMAIN c \ expired_keys |-> c[k]]

\* cleanup_expired_cache (lines 400-413)
cleanup_expired_cache(c, t) ==
    LET expired_keys == {k \in DOMAIN c : ~is_cache_valid(c[k], t)}
    IN  [k \in DOMAIN c \ expired_keys |-> c[k]]

(***************************************************************************)
(* extract_followers_from_api (lines 150-174).  A JSON value is a record   *)
(* tagged with its Python type t: a dict carries its items d, an int, a    *)
(* float or a str carries s = str(value).                                  *)
(***************************************************************************)
ApiPaths ==
    << <<"userInfo", "stats", "followerCount">>,
       <<"user", "stats", "followerCount">>,
       <<"data", "follower_count">>,
       <<"stats", "followers">>,
       <<"followerCount">> >>

JDict(d) == [t |-> "dict", d |-> d]
JInt(s) == [t |-> "int", s |-> s]
JStr(s) == [t |-> "str", s |-> s]
JFloat(s) == [t |-> "float", s |-> s]

\* value[key] for each key of path: the value found, or a KeyError or
\* TypeError (found = FALSE)
RECURSIVE Resolve(_, _)
Resolve(value, path) ==
    IF path = <<>> THEN [found |-> TRUE, value |-> value]
    ELSE IF value.t = "dict" /\ Head(path) \in DOMAIN value.d
    THEN Resolve(value.d[Head(path)], Tail(path))
    ELSE [found |-> FALSE]

\* isinstance(value, (int, str)) and str(value).isdigit()
IsNumeric(value) == value.t \in {"int", "str"} /\ IsDigit(value.s)

RECURSIVE ExtractFrom(_, _, _)
ExtractFrom(data, paths, n) ==
    IF n > Len(paths) THEN None
    ELSE LET r == Resolve(data, paths[n])
         IN  IF r.found /\ IsNumeric(r.value) THEN r.value.s
             ELSE ExtractFrom(data, paths, n + 1)

extract_followers_from_api(data) == ExtractFrom(data, ApiPaths, 1)

\* one pass of the loop body of try_api_method (lines 130-143) on the
\* outcome of one GET: the followers it returns, or None to go on
ApiResult(outcome) ==
    IF outcome.kind = "json" /\ Truthy(extract_followers_from_api(outcome.data))
    THEN extract_followers_from_api(outcome.data)
    ELSE None

api_urls == 2     \* the endpoints try_api_method probes in turn

(***************************************************************************)
(* scrape_with_playwright (lines 176-238).                                 *)
(***************************************************************************)
selectors == 3    \* the selectors it waits for in turn

CountChars == Range(DigitChars) \cup {",", "."} \cup Suffixes

\* faulty variant: the text of the element is taken without the re.match
SelectorResultUnchecked(outcome) ==
    IF outcome.kind = "text" /\ outcome.text # None /\ outcome.text # <<>>
    THEN Strip(outcome.text)
    ELSE None

\* text and re.match(r'^[\d,.KMBkmb]+$', text.strip()), then text.strip()
SelectorResult(outcome) ==
    IF outcome.kind = "text" /\ outcome.text # None /\ outcome.text # <<>>
       /\ Strip(outcome.text) # <<>>
       /\ \A i \in DOMAIN Strip(outcome.text) : Strip(outcome.text)[i] \in CountChars
    THEN Strip(outcome.text)
    ELSE None

(***************************************************************************)
(* Regular expressions over the page source.  The source is a sequence of  *)
(* tokens: a character, or a whole word ("followerCount", "Followers").  A *)
(* pattern is a sequence of items [set, min, many, group]: at least min    *)
(* tokens of set and at most one, or any number when many holds; greedy;   *)
(* captured when group holds.  MatchFrom lists the captures of every way   *)
(* the pattern matches at a position, in the order a backtracking matcher  *)
(* finds them.                                                             *)
(***************************************************************************)
Item(set, min, many, group) ==
    [set |-> set, min |-> min, many |-> many, group |-> group]

RunLength(c, pos, set) ==
    IF \E j \in pos..Len(c) : c[j] \notin set
    THEN (CHOOSE j \in pos..Len(c) :
              c[j] \notin set /\ \A k \in pos..(j - 1) : c[k] \in set) - pos
    ELSE Len(c) - pos + 1

RECURSIVE MatchFrom(_, _, _, _)
RECURSIVE MatchRuns(_, _, _, _, _)
MatchFrom(c, pos, pat, k) ==
    IF k > Len(pat) THEN << <<>> >>
    ELSE LET longest == RunLength(c, pos, pat[k].set)
             n == IF longest > 1 /\ ~pat[k].many THEN 1 ELSE longest
         IN  MatchRuns(c, pos, pat, k, n)

MatchRuns(c, pos, pat, k, n) ==
    IF n < pat[k].min THEN <<>>
    ELSE LET taken == IF pat[k].group THEN SubSeq(c, pos, pos + n - 1) ELSE <<>>
             rest == MatchFrom(c, pos + n, pat, k + 1)
         IN  [j \in DOMAIN rest |-> taken \o rest[j]]
                 \o MatchRuns(c, pos, pat, k, n - 1)

\* re.findall(pattern, content)[0]: the group of the leftmost match, or
\* None when there is no match
FirstMatch(pat, c) ==
    IF \E pos \in 1..Len(c) : MatchFrom(c, pos, pat, 1) # <<>>
    THEN LET pos == CHOOSE q \in 1..Len(c) :
                        /\ MatchFrom(c, q, pat, 1) # <<>>
                        /\ \A r \in 1..(q - 1) : MatchFrom(c, r, pat, 1) = <<>>
         IN  MatchFrom(c, pos, pat, 1)[1]
    ELSE None

Quote == {"\"", "'"}
FollowerCountWord == {"followerCount", "followercount", "FOLLOWERCOUNT"}
FollowersWord == {"Followers", "followers", "FOLLOWERS"}

\* lines 217-221, matched with re.IGNORECASE
patterns ==
    << \* "followerCount":(\d+)
       << Item({"\""}, 1, FALSE, FALSE), Item(FollowerCountWord, 1, FALSE, FALSE),
          Item({"\""}, 1, FALSE, FALSE), Item({":"}, 1, FALSE, FALSE),
          Item(Range(DigitChars), 1, TRUE, TRUE) >>,
       \* followerCount["\']:\s*["\']?(\d+)
       << Item(FollowerCountWord, 1, FALSE, FALSE), Item(Quote, 1, FALSE, FALSE),
          Item({":"}, 1, FALSE, FALSE), Item(Whitespace, 0, TRUE, FALSE),
          Item(Quote, 0, FALSE, FALSE),
          Item(Range(DigitChars), 1, TRUE, TRUE) >>,
       \* ([\d,.]+[KMBkmb]?)\s*Followers
       << Item(Range(DigitChars) \cup {",", "."}, 1, TRUE, TRUE),
          Item(Suffixes, 0, FALSE, TRUE), Item(Whitespace, 0, TRUE, FALSE),
          Item(FollowersWord, 1, FALSE, FALSE) >> >>

\* one entry of a request's log: the step made (an API GET, a selector
\* wait, a regex, ...), its index in its list, and the value it produced
\* (None: none)
Entry(step, i, got) == [step |-> step, i |-> i, got |-> got]

\* the loop of lines 223-226: the patterns tried, in order, up to the first
\* that matches, as log entries, the last one carrying the match
RECURSIVE ScanFrom(_, _)
ScanFrom(content, n) ==
    IF n > Len(patterns) THEN <<>>
    ELSE LET m == FirstMatch(patterns[n], content)
         IN  IF m # None THEN << Entry("regex", n, m) >>
             ELSE << Entry("regex", n, None) >> \o ScanFrom(content, n + 1)

ContentScan(outcome) ==
    IF outcome.kind = "content" THEN ScanFrom(outcome.content, 1) ELSE <<>>

(***************************************************************************)
(* The request handler get_followers_endpoint (lines 346-398) with         *)
(* get_followers_count (240-267), try_api_method (119-148) and             *)
(* scrape_with_playwright (176-238) inlined.  A handler runs without       *)
(* interruption from one await that suspends to the next, so each action   *)
(* below is the code between two suspensions; its parameter is what the    *)
(* awaited call produced.                                                  *)
(*                                                                         *)
(* A suspended handler is a record of tasks:                               *)
(*   username  the normalised username                                     *)
(*   at, i     the await it is suspended at: "api" (GET of endpoint i),    *)
(*             "put" (request_queue.put on a full queue),                  *)
(*             "new_page", "goto" (route, goto and the 2 s wait),          *)
(*             "selector" (wait and text of selector i), "content",        *)
(*             "close", "background" (response sent, sweep not yet run)    *)
(*   result    at "close": what scrape_with_playwright is returning        *)
(*   log       the steps made so far (history)                             *)
(*   lookup    what the cache lookup found (history)                       *)
(***************************************************************************)
TickLen == cache_timeout \div 2

InFlight == BagCardinality(tasks)

Detail404 ==
    "Could not retrieve followers count. User may not exist or profile may be private."
Detail429 == "Server busy, please try again later"
Detail500 == "Internal server error"

\* faulty variant: detail=str(e)
ErrorDetailVerbatim(message) == message

\* line 391: the detail of the 500 raised for an unexpected exception e
ErrorDetail(message) == Detail500

\* faulty variant: dict.setdefault, the first store wins
StoreIfAbsent(c, key, followers, t) ==
    IF Truthy(followers) /\ key \notin DOMAIN c
    THEN CacheStore(c, key, followers, t) ELSE c

\* faulty variant: line 261 is missing and None is stored too
StoreAlways(c, key, followers, t) == CacheStore(c, key, followers, t)

\* lines 260-265 of get_followers_count
StoreIfFound(c, key, followers, t) ==
    IF Truthy(followers) THEN CacheStore(c, key, followers, t) ELSE c

\* faulty variant: line 377 looks the username up, not its cache key
EndpointResponseRawKey(username, followers, c, t) ==
    IF Truthy(followers)
    THEN [status |-> 200, detail |-> "",
          body |-> << [username |-> username,
                       followers |-> format_followers(followers),
                       cached |-> username \in DOMAIN c,
                       timestamp |-> t,
                       status |-> "success"] >>]
    ELSE [status |-> 404, detail |-> Detail404, body |-> <<>>]

\* faulty variant: without lines 387-388 the 404 is caught by line 389 and
\* answered as a 500
EndpointResponseSwallowed(username, followers, c, t) ==
    IF Truthy(followers)
    THEN [status |-> 200, detail |-> "",
          body |-> << [username |-> username,
                       followers |-> format_followers(followers),
                       cached |-> get_cache_key(username) \in DOMAIN c,
                       timestamp |-> t,
                       status |-> "success"] >>]
    ELSE [status |-> 500, detail |-> Detail500, body |-> <<>>]

\* lines 368-385: the response for what get_followers_count returned, with
\* the cache as it is then
EndpointResponse(username, followers, c, t) ==
    IF Truthy(followers)
    THEN [status |-> 200, detail |-> "",
          body |-> << [username |-> username,
                       followers |-> format_followers(followers),
                       cached |-> get_cache_key(username) \in DOMAIN c,
                       timestamp |-> t,
                       status |-> "success"] >>]
    ELSE [status |-> 404, detail |-> Detail404, body |-> <<>>]

Event(step, username, resp, log, lookup) ==
    [step |-> step, username |-> username,
     status |-> resp.status, detail |-> resp.detail, body |-> resp.body,
     log |-> log, lookup |-> lookup, error |-> ""]

NoResponse == [status |-> 0, detail |-> "", body |-> <<>>]

\* event after a step that answered no request
NoEvent == Event("", <<>>, NoResponse, <<>>, "none")

Task(username, at, i, result, log, lookup) ==
    [username |-> username, at |-> at, i |-> i, result |-> result,
     log |-> log, lookup |-> lookup]

Put(t) == SetToBag({t})

\* the handler t moves on to its next await
Suspend(t, step, at, i, result, entries) ==
    LET t2 == Task(t.username, at, i, result, t.log \o entries, t.lookup)
    IN  /\ tasks' = (tasks (-) Put(t)) (+) Put(t2)
        /\ event' = NoEvent
        /\ UNCHANGED <<cache, request_queue, now, queue_task, arg, ret>>

\* faulty variant: background_tasks.add_task before the test of line 368
ReturnAlwaysSweeps(t, step, followers, entries) ==
    LET c2 == StoreIfFound(cache, get_cache_key(t.username), followers, now)
        resp == EndpointResponse(t.username, followers, c2, now)
        log2 == t.log \o entries
        bg == Task(t.username, "background", 0, None, <<>>, "none")
    IN  /\ cache' = c2
        /\ request_queue' = Dequeue(request_queue)
        /\ tasks' = (tasks (-) Put(t)) (+) Put(bg)
        /\ event' = Event(step, t.username, resp, log2, t.lookup)
        /\ UNCHANGED <<now, queue_task, arg, ret>>

\* get_followers_count returns followers to the handler t (lines 260-267),
\* which answers (368-385) and leaves the queue (392-398); after a 200 the
\* sweep it scheduled is still to run
Return(t, step, followers, entries) ==
    LET c2 == StoreIfFound(cache, get_cache_key(t.username), followers, now)
        resp == EndpointResponse(t.username, followers, c2, now)
        log2 == t.log \o entries
        bg == Task(t.username, "background", 0, None, <<>>, "none")
    IN  /\ cache' = c2
        /\ request_queue' = Dequeue(request_queue)
        /\ tasks' = IF resp.status = 200
                    THEN (tasks (-) Put(t)) (+) Put(bg)
                    ELSE tasks (-) Put(t)
        /\ event' = Event(step, t.username, resp, log2, t.lookup)
        /\ UNCHANGED <<now, queue_task, arg, ret>>

\* a request for target arrives: lines 348-366 and get_followers_count down
\* to its first await (the first GET of try_api_method) or, on a cache hit,
\* the whole request
Arrive(target) ==
    LET v == ValidateUsername(target)
        username == v.username
        look == CacheLookup(cache, get_cache_key(username), now)
        queued == Append(request_queue, username)
        hit == EndpointResponse(username, look.followers, look.cache, now)
    IN  IF v.status # 0
        THEN /\ event' = Event("Arrive", username,
                               [status |-> v.status, detail |-> v.detail,
                                body |-> <<>>], <<>>, "none")
             /\ UNCHANGED <<cache, request_queue, now, tasks, open_pages,
                            queue_task, arg, ret>>
        ELSE IF Busy(request_queue)
        THEN /\ event' = Event("Arrive", username,
                               [status |-> 429, detail |-> Detail429,
                                body |-> <<>>], <<>>, "none")
             /\ UNCHANGED <<cache, request_queue, now, tasks, open_pages,
                            queue_task, arg, ret>>
        ELSE IF Full(request_queue)
        THEN \* await request_queue.put(username) on a full queue suspends
             \* the handler until a slot is free
             /\ tasks' = tasks (+) Put(Task(username, "put", 0, None, <<>>,
                                            "none"))
             /\ event' = Event("Arrive", username, NoResponse, <<>>,
                               "none")
             /\ UNCHANGED <<cache, request_queue, now, open_pages, queue_task,
                            arg, ret>>
        ELSE IF look.error # ""
        THEN \* the exception leaves get_followers_count: lines 389-398
             /\ cache' = look.cache
             /\ request_queue' = Dequeue(queued)
             /\ event' = [Event("Arrive", username,
                                [status |-> 500,
                                 detail |-> ErrorDetail(look.error),
                                 body |-> <<>>], <<>>, look.found)
                          EXCEPT !.error = look.error]
             /\ UNCHANGED <<now, tasks, open_pages, queue_task, arg, ret>>
        ELSE IF look.found = "hit"
        THEN /\ request_queue' = Dequeue(queued)
             /\ tasks' = tasks (+) Put(Task(username, "background", 0, None,
                                            <<>>, "none"))
             /\ event' = Event("Arrive", username, hit, <<>>, "hit")
             /\ UNCHANGED <<cache, now, open_pages, queue_task, arg, ret>>
        ELSE /\ cache' = look.cache
             /\ request_queue' = queued
             /\ tasks' = tasks (+) Put(Task(username, "api", 1, None, <<>>,
                                            look.found))
             /\ event' = Event("Arrive", username, NoResponse, <<>>,
                               look.found)
             /\ UNCHANGED <<now, open_pages, queue_task, arg, ret>>

\* faulty variant: the loop of try_api_method lacks the return of line 140
\* and goes on to the next endpoint with the value in hand
ApiStepKeepsGoing(t, outcome) ==
    LET followers == ApiResult(outcome)
        entry == << Entry("api", t.i, followers) >>
    IN  /\ t.at = "api"
        /\ UNCHANGED open_pages
        /\ IF t.i < api_urls
           THEN Suspend(t, "ApiStep", "api", t.i + 1, None, entry)
           ELSE Suspend(t, "ApiStep", "new_page", 0, None, entry)

\* faulty variant: without the inner try of lines 130-143 an exception of
\* one GET ends try_api_method at line 145
ApiStepUnguarded(t, outcome) ==
    LET followers == ApiResult(outcome)
        entry == << Entry("api", t.i, followers) >>
    IN  /\ t.at = "api"
        /\ UNCHANGED open_pages
        /\ IF Truthy(followers)
           THEN Return(t, "ApiStep", followers, entry)
           ELSE IF t.i < api_urls /\ outcome.kind # "raise"
           THEN Suspend(t, "ApiStep", "api", t.i + 1, None, entry)
           ELSE Suspend(t, "ApiStep", "new_page", 0, None, entry)

\* the GET of endpoint t.i comes back (lines 130-143), then lines 253-258
ApiStep(t, outcome) ==
    LET followers == ApiResult(outcome)
        entry == << Entry("api", t.i, followers) >>
    IN  /\ t.at = "api"
        /\ UNCHANGED open_pages
        /\ IF Truthy(followers)
           THEN Return(t, "ApiStep", followers, entry)
           ELSE IF t.i < api_urls
           THEN Suspend(t, "ApiStep", "api", t.i + 1, None, entry)
           ELSE Suspend(t, "ApiStep", "new_page", 0, None, entry)

\* app_state.context.new_page() comes back (line 184); when it raises, page
\* is still None, nothing is closed and the scrape returns None
NewPageStep(t, outcome) ==
    LET entry == << Entry("new_page", 0, None) >>
    IN  /\ t.at = "new_page"
        /\ IF outcome.kind = "raise"
           THEN /\ Return(t, "NewPageStep", None, entry)
                /\ UNCHANGED open_pages
           ELSE /\ Suspend(t, "NewPageStep", "goto", 0, None, entry)
                /\ open_pages' = open_pages + 1

\* faulty variant: without the finally of lines 236-238 a failed navigation
\* returns None with the page left open
GotoStepNoFinally(t, outcome) ==
    LET entry == << Entry("goto", 0, None) >>
    IN  /\ t.at = "goto"
        /\ UNCHANGED open_pages
        /\ IF outcome.kind = "raise"
           THEN Return(t, "GotoStep", None, entry)
           ELSE Suspend(t, "GotoStep", "selector", 1, None, entry)

\* page.route, page.goto and the 2 s wait come back (lines 187-193)
GotoStep(t, outcome) ==
    LET entry == << Entry("goto", 0, None) >>
    IN  /\ t.at = "goto"
        /\ UNCHANGED open_pages
        /\ IF outcome.kind = "raise"
           THEN Suspend(t, "GotoStep", "close", 0, None, entry)
           ELSE Suspend(t, "GotoStep", "selector", 1, None, entry)

\* faulty variant: a selector that gives nothing is waited for again
SelectorStepRetries(t, outcome) ==
    LET followers == SelectorResult(outcome)
        entry == << Entry("selector", t.i, followers) >>
    IN  /\ t.at = "selector"
        /\ UNCHANGED open_pages
        /\ IF Truthy(followers)
           THEN Suspend(t, "SelectorStep", "close", 0, followers, entry)
           ELSE Suspend(t, "SelectorStep", "selector", t.i, None, <<>>)

\* wait_for_selector and text_content of selector t.i come back (202-212)
SelectorStep(t, outcome) ==
    LET followers == SelectorResult(outcome)
        entry == << Entry("selector", t.i, followers) >>
    IN  /\ t.at = "selector"
        /\ UNCHANGED open_pages
        /\ IF Truthy(followers)
           THEN Suspend(t, "SelectorStep", "close", 0, followers, entry)
           ELSE IF t.i < selectors
           THEN Suspend(t, "SelectorStep", "selector", t.i + 1, None, entry)
           ELSE Suspend(t, "SelectorStep", "content", 0, None, entry)

\* page.content() comes back and the source is scanned (lines 215-231)
ContentStep(t, outcome) ==
    LET scan == ContentScan(outcome)
        followers == IF scan = <<>> THEN None ELSE scan[Len(scan)].got
        entries == << Entry("content", 0, None) >> \o scan
    IN  /\ t.at = "content"
        /\ UNCHANGED open_pages
        /\ Suspend(t, "ContentStep", "close", 0, followers, entries)

\* page.close() in the finally block comes back (lines 236-238): the scrape
\* returns t.result, or the exception of close() leaves get_followers_count
\* and is answered by lines 389-391
CloseStep(t, outcome) ==
    /\ t.at = "close"
    /\ open_pages' = open_pages - 1
    /\ IF outcome.kind = "raise"
       THEN /\ request_queue' = Dequeue(request_queue)
            /\ tasks' = tasks (-) Put(t)
            /\ event' = [Event("CloseStep", t.username,
                                    [status |-> 500,
                                     detail |-> ErrorDetail(outcome.message),
                                     body |-> <<>>],
                                    t.log, t.lookup)
                              EXCEPT !.error = outcome.message]
            /\ UNCHANGED <<cache, now, queue_task, arg, ret>>
       ELSE Return(t, "CloseStep", t.result, <<>>)

\* the background task of a request answered with 200 runs (line 372)
BackgroundStep(t) ==
    /\ t.at = "background"
    /\ cache' = cleanup_expired_cache(cache, now)
    /\ tasks' = tasks (-) Put(t)
    /\ event' = Event("BackgroundStep", <<>>, NoResponse, <<>>, "none")
    /\ UNCHANGED <<request_queue, now, open_pages, queue_task, arg, ret>>

\* process_queue (lines 301-310) wakes up: from the sleep of line 310 it
\* goes round the loop, into the 1 s sleep of line 307 ("delay") when the
\* queue is not empty; from that one it goes on to the sleep of line 310
ProcessQueueStep ==
    /\ queue_task' = IF queue_task = "sleep" /\ request_queue # <<>>
                     THEN "delay" ELSE "sleep"
    /\ event' = Event("ProcessQueueStep", <<>>, NoResponse, <<>>, "none")
    /\ UNCHANGED <<cache, request_queue, now, tasks, open_pages, arg, ret>>

\* the wall clock advances
Tick ==
    /\ now < MaxTicks * TickLen
    /\ now' = now + TickLen
    /\ event' = Event("Tick", <<>>, NoResponse, <<>>, "none")
    /\ UNCHANGED <<cache, request_queue, tasks, open_pages, queue_task, arg,
                   ret>>

(***************************************************************************)
(* What the awaited calls can produce.                                     *)
(***************************************************************************)
NoData == JStr(<<>>)

ApiDocs ==
    { JDict([userInfo |-> JDict([stats |-> JDict([followerCount |-> JInt(<<"1", "2">>)])])]),
      JDict([data |-> JDict([follower_count |-> JStr(<<"1", "2">>)]),
             followerCount |-> JInt(<<"3">>)]),
      JDict([followerCount |-> JStr(<<"1", ".", "2", "K">>)]),
      JDict([stats |-> JDict([followers |-> JInt(<<"-", "5">>)])]),
      JDict([user |-> JInt(<<"4">>), followerCount |-> JFloat(<<"7", ".", "0">>)]) }

ApiOutcomes ==
    {[kind |-> "raise", data |-> NoData], [kind |-> "status", data |-> NoData]}
        \cup {[kind |-> "json", data |-> d] : d \in ApiDocs}

PageOutcomes == {[kind |-> "ok"], [kind |-> "raise"]}

SelectorOutcomes ==
    {[kind |-> "raise", text |-> None], [kind |-> "text", text |-> None],
     [kind |-> "text", text |-> <<" ", "1", ".", "5", "M", "\n">>],
     [kind |-> "text", text |-> <<"1", "2", " ", "F">>],
     [kind |-> "text", text |-> <<" ">>]}

PageContents ==
    { <<"\"", "followerCount", "\"", ":", "1", "2">>,
      <<"3", "K", " ", "Followers", "\"", "followerCount", "\"", ":", "1", "2">>,
      <<"followercount", "'", ":", " ", "'", "1", "2", "'">>,
      <<"x", "1", ",", "2", " ", "followers">>,
      <<"x", "K", "Followers">>,
      <<>> }

ContentOutcomes ==
    {[kind |-> "raise", content |-> <<>>]}
        \cup {[kind |-> "content", content |-> c] : c \in PageContents}

CloseOutcomes ==
    {[kind |-> "ok", message |-> ""],
     [kind |-> "raise", message |-> "Target page, context or browser has been closed"],
     [kind |-> "raise", message |-> "Connection closed"]}

Targets == { <<"a">>, <<"@", "A", " ">>, <<"a", "!">> }

(***************************************************************************)
(* The service.                                                            *)
(***************************************************************************)
\* the state after construction and startup: nothing cached, queued or running
Idle ==
    /\ cache = <<>>
    /\ request_queue = <<>>
    /\ now = 0
    /\ tasks = EmptyBag
    /\ open_pages = 0
    /\ event = NoEvent
    /\ queue_task = "sleep"

Init == Idle /\ arg = <<>> /\ ret = <<>>

Running == BagToSet(tasks)

Next ==
    \/ \E target \in Targets : InFlight < MaxInFlight /\ Arrive(target)
    \/ \E t \in Running, o \in ApiOutcomes : ApiStep(t, o)
    \/ \E t \in Running, o \in PageOutcomes : NewPageStep(t, o)
    \/ \E t \in Running, o \in PageOutcomes : GotoStep(t, o)
    \/ \E t \in Running, o \in SelectorOutcomes : SelectorStep(t, o)
    \/ \E t \in Running, o \in ContentOutcomes : ContentStep(t, o)
    \/ \E t \in Running, o \in CloseOutcomes : CloseStep(t, o)
    \/ \E t \in Running : BackgroundStep(t)
    \/ Tick

Spec == Init /\ [][Next]_vars

(***************************************************************************)
(* The service under load: any number of requests for one profile while    *)
(* both API endpoints fail and the browser context opens no page, so that  *)
(* every admitted request stays in flight over three awaits and ends 404.  *)
(* Nothing but the admission queue bounds the requests in flight.          *)
(***************************************************************************)
BusyTargets == { <<"a">>, <<"a", "!">> }

BusyApiOutcomes == {o \in ApiOutcomes : o.kind # "json"}

BusyPageOutcomes == {[kind |-> "raise"]}

NextBusy ==
    \/ \E target \in BusyTargets : Arrive(target)
    \/ \E t \in Running, o \in BusyApiOutcomes : ApiStep(t, o)
    \/ \E t \in Running, o \in BusyPageOutcomes : NewPageStep(t, o)

SpecBusy == Init /\ [][NextBusy]_vars

(***************************************************************************)
(* The pure functions on their own: the argument is drawn from a bounded   *)
(* set of strings and one call is made.  The service's state stays as      *)
(* constructed.                                                            *)
(***************************************************************************)
RawAlphabet == {"0", "1", "2", "3", "4", "5", ".", ",", "K", "M", "b", "a"}

TargetAlphabet == {"a", "B", "1", ".", "@", " ", "\n", "!"}

InitFormat == Idle /\ arg \in SeqsUpTo(RawAlphabet, MaxRawLen) /\ ret = <<>>

CallFormat ==
    /\ ret = <<>>
    /\ ret' = <<format_followers(arg)>>
    /\ UNCHANGED <<cache, request_queue, now, tasks, open_pages, event,
                 queue_task, arg>>

SpecFormat == InitFormat /\ [][CallFormat]_vars

InitValidate ==
    Idle /\ arg \in SeqsUpTo(TargetAlphabet, MaxTargetLen) /\ ret = <<>>

CallValidate ==
    /\ ret = <<>>
    /\ ret' = <<ValidateUsername(arg)>>
    /\ UNCHANGED <<cache, request_queue, now, tasks, open_pages, event,
                 queue_task, arg>>

SpecValidate == InitValidate /\ [][CallValidate]_vars

(***************************************************************************)
(* The service with two profiles: requests for "a" and for "b", whose API  *)
(* endpoints fail or answer, whose page either cannot be opened or fails   *)
(* to load, while the clock advances.                                      *)
(***************************************************************************)
KeysTargets == { <<"a">>, <<"b">>, <<"a", "!">> }

KeysApiOutcomes ==
    {[kind |-> "raise", data |-> NoData],
     [kind |-> "json",
      data |-> JDict([followerCount |-> JStr(<<"7">>)])]}

KeysGotoOutcomes == {[kind |-> "raise"]}

NextKeys ==
    \/ \E target \in KeysTargets : InFlight < MaxInFlight /\ Arrive(target)
    \/ \E t \in Running, o \in KeysApiOutcomes : ApiStep(t, o)
    \/ \E t \in Running, o \in PageOutcomes : NewPageStep(t, o)
    \/ \E t \in Running, o \in KeysGotoOutcomes : GotoStep(t, o)
    \/ \E t \in Running, o \in CloseOutcomes : CloseStep(t, o)
    \/ \E t \in Running : BackgroundStep(t)
    \/ Tick

SpecKeys == Init /\ [][NextKeys]_vars

(***************************************************************************)
(* The admission queue with every way out of a request: up to MaxBusy      *)
(* requests for one profile that are answered by an API endpoint (200), or *)
(* find both endpoints failing and a page that does not load (404), or     *)
(* cannot close that page (500), beside process_queue.                     *)
(***************************************************************************)
QueuePageOutcomes == {[kind |-> "ok"]}

QueueCloseOutcomes ==
    {[kind |-> "ok", message |-> ""],
     [kind |-> "raise", message |-> "Connection closed"]}

ArriveQueue == \E target \in BusyTargets : InFlight < MaxBusy /\ Arrive(target)

ApiQueue == \E t \in Running, o \in KeysApiOutcomes : ApiStep(t, o)

NewPageQueue == \E t \in Running, o \in QueuePageOutcomes : NewPageStep(t, o)

GotoQueue == \E t \in Running, o \in KeysGotoOutcomes : GotoStep(t, o)

CloseQueue == \E t \in Running, o \in QueueCloseOutcomes : CloseStep(t, o)

BackgroundQueue == \E t \in Running : BackgroundStep(t)

NextQueue ==
    \/ ArriveQueue
    \/ ApiQueue
    \/ NewPageQueue
    \/ GotoQueue
    \/ CloseQueue
    \/ BackgroundQueue
    \/ ProcessQueueStep

SpecQueue == Init /\ [][NextQueue]_vars

(***************************************************************************)
(* One request followed among many.  The followed request asks for "A",    *)
(* is the first to be admitted and may take any way through the            *)
(* strategies; the others ask for "a", find both API endpoints failing and *)
(* no page to open, and fill the queue.  No other request asks for "A",    *)
(* so the handler of the followed request is the one task with that        *)
(* username.  Every awaited call returns or raises within its timeout and  *)
(* the event loop resumes every task whose awaited call is over: a handler *)
(* that can take a step eventually takes one.  process_queue, which        *)
(* changes nothing a handler reads, is left to SpecQueue.                  *)
(***************************************************************************)
FollowedUser == <<"A">>

\* the handlers in flight of the requests for username u
Handlers(u) == {t \in Running : t.username = u /\ t.at # "background"}

Sweeps ==
    BagCardinality([t \in {x \in Running : x.at = "background"} |-> tasks[t]])

FairSelectorOutcomes ==
    {[kind |-> "raise", text |-> None],
     [kind |-> "text", text |-> <<" ", "1", ".", "5", "M", "\n">>]}

FairContentOutcomes ==
    {[kind |-> "raise", content |-> <<>>],
     [kind |-> "content", content |-> <<"x", "K", "Followers">>]}

\* what an awaited call of handler t can produce: any of wide for the
\* followed request, any of narrow for the others
OutcomesFor(t, wide, narrow) ==
    IF t.username = FollowedUser THEN wide ELSE narrow

\* the state after Arrive(FollowedUser) in the idle service
InitFair ==
    /\ cache = <<>>
    /\ request_queue = <<FollowedUser>>
    /\ now = 0
    /\ tasks = Put(Task(FollowedUser, "api", 1, None, <<>>, "absent"))
    /\ open_pages = 0
    /\ event = Event("Arrive", FollowedUser, NoResponse, <<>>, "absent")
    /\ queue_task = "sleep"
    /\ arg = <<>>
    /\ ret = <<>>

ArriveFair ==
    \E target \in BusyTargets :
        /\ InFlight < MaxBusy
        /\ Sweeps < MaxSweeps
        /\ Arrive(target)

\* the handler t takes its next step
HandlerStep(t) ==
    \/ \E o \in OutcomesFor(t, KeysApiOutcomes,
                             {[kind |-> "raise", data |-> NoData]}) :
           ApiStep(t, o)
    \/ \E o \in OutcomesFor(t, PageOutcomes, BusyPageOutcomes) :
           NewPageStep(t, o)
    \/ \E o \in PageOutcomes : GotoStep(t, o)
    \/ \E o \in FairSelectorOutcomes : SelectorStep(t, o)
    \/ \E o \in FairContentOutcomes : ContentStep(t, o)
    \/ \E o \in QueueCloseOutcomes : CloseStep(t, o)

StepOf(u) == \E t \in Handlers(u) : HandlerStep(t)

NextFair ==
    \/ ArriveFair
    \/ \E u \in {FollowedUser, <<"a">>} : StepOf(u)
    \/ BackgroundQueue

Fairness == \A u \in {FollowedUser, <<"a">>} : WF_vars(StepOf(u))

SpecFair == InitFair /\ [][NextFair]_vars /\ Fairness

(***************************************************************************)
(* The sweep on its own: a request has just been answered 200 and its      *)
(* sweep is still to run, over any cache of up to three keys whose entries *)
(* were stored at any earlier tick.  arg keeps the cache as the sweep      *)
(* finds it.                                                               *)
(***************************************************************************)
SweepKeys == { <<"a">>, <<"b">>, <<"c">> }

SweepTimes == {n * TickLen : n \in 0..(2 * MaxTicks)}

SweepCaches ==
    {[k \in {x \in SweepKeys : f[x] >= 0} |->
          [followers |-> <<"1", "2">>, timestamp |-> f[k]]] :
        f \in [SweepKeys -> SweepTimes \cup {-1}]}

InitSweep ==
    /\ cache \in SweepCaches
    /\ now \in SweepTimes
    /\ \A k \in DOMAIN cache : cache[k].timestamp <= now
    /\ request_queue = <<>>
    /\ tasks = Put(Task(<<"a">>, "background", 0, None, <<>>, "none"))
    /\ open_pages = 0
    /\ event = NoEvent
    /\ queue_task = "sleep"
    /\ arg = cache
    /\ ret = <<>>

NextSweep == \E t \in Running : BackgroundStep(t)

SpecSweep == InitSweep /\ [][NextSweep]_vars

(***************************************************************************)
(* Properties.                                                             *)
(***************************************************************************)

(***************************************************************************)
(* Username acceptance as documented: trim, strip one leading "@", accept  *)
(* a non-empty rest of allowed characters.                                 *)
(***************************************************************************)
StripLeadingAt(s) == IF s # <<>> /\ s[1] = "@" THEN Tail(s) ELSE s

DocumentedUsername(target) == StripLeadingAt(Strip(target))

DocumentedAccepted(target) ==
    /\ DocumentedUsername(target) # <<>>
    /\ \A i \in DOMAIN DocumentedUsername(target) :
           DocumentedUsername(target)[i] \in UsernameChars

\* C5: the endpoint trims the target and strips a leading "@", accepts it
\* exactly when the rest is non-empty and made of [A-Za-z0-9._-], and
\* rejects every other target, an "@" that is not leading included, with 400
UsernameAcceptance ==
    ret # <<>> =>
        /\ ret[1].status \in {0, 400}
        /\ (ret[1].status = 0) = DocumentedAccepted(arg)
        /\ ret[1].status = 0 => ret[1].username = DocumentedUsername(arg)

(***************************************************************************)
(* format_followers as documented: the coefficient times the multiplier in *)
(* exact decimal arithmetic, truncated.                                    *)
(***************************************************************************)
StripZeros(digits) ==
    IF \A i \in DOMAIN digits : digits[i] = "0" THEN <<"0">>
    ELSE SubSeq(digits, CHOOSE i \in DOMAIN digits :
                            digits[i] # "0" /\ \A j \in 1..(i - 1) : digits[j] = "0",
                Len(digits))

DecimalPlaces(suffix) ==
    CASE suffix \in {"K", "k"} -> 3
      [] suffix \in {"M", "m"} -> 6
      [] suffix \in {"B", "b"} -> 9

\* trunc(coeff * 10^places), by moving the decimal point
ExactScaled(coeff, places) ==
    StripZeros(WholePart(coeff)
                   \o SubSeq(FracPart(coeff) \o [i \in 1..places |-> "0"],
                             1, places))

HasNumericCoefficient(count) ==
    /\ count # <<>>
    /\ count[Len(count)] \in Suffixes
    /\ IsFloatLiteral(SubSeq(count, 1, Len(count) - 1))

\* C8: format_followers gives, for digits, their integer value and its
\* grouping by thousands; for a numeric coefficient with K/M/B, the
\* coefficient times 1e3/1e6/1e9 truncated, and its grouping; for a suffix
\* after a non-numeric coefficient, the raw value as formatted; for an empty
\* value, "Unknown" and 0
FormatAsDocumented ==
    ret # <<>> =>
        /\ arg = <<>> =>
              ret[1].formatted = Unknown /\ ret[1].numeric = <<"0">>
        /\ IsDigit(arg) =>
              /\ ret[1].numeric = StripZeros(arg)
              /\ ret[1].formatted = GroupThousands(StripZeros(arg))
        /\ HasNumericCoefficient(arg) =>
              LET exact == ExactScaled(SubSeq(arg, 1, Len(arg) - 1),
                                       DecimalPlaces(arg[Len(arg)]))
              IN  /\ ret[1].numeric = exact
                  /\ ret[1].formatted = GroupThousands(exact)
        /\ (arg # <<>> /\ arg[Len(arg)] \in Suffixes
               /\ ~HasNumericCoefficient(arg)) =>
              ret[1].formatted = arg

(***************************************************************************)
(* The request handler.  A step that answers a request, or takes it in,    *)
(* leaves its record in event.                                             *)
(***************************************************************************)
\* the step taken receives a request whose username passes validation
Arrives == event'.step = "Arrive" /\ event'.status # 400

\* the step taken ends a request that went through the strategies
Answered(e) == e.status \in {200, 404, 500} /\ e.lookup \in {"absent", "stale"}

Last(log) == log[Len(log)]

\* C1: a valid request that finds 10 entries in the queue is answered 429
\* in the same step, is not enqueued, is not suspended and starts no
\* strategy; one that finds fewer is not answered 429 and never waits on
\* the queue's put
FailFast ==
    [][Arrives =>
          IF Len(request_queue) >= request_queue_maxsize
          THEN /\ event'.status = 429
               /\ request_queue' = request_queue
               /\ tasks' = tasks
               /\ cache' = cache
               /\ open_pages' = open_pages
          ELSE /\ event'.status # 429
               /\ \A t \in BagToSet(tasks') : t.at # "put"
               /\ \/ Len(request_queue') = Len(request_queue) + 1
                  \/ event'.status = 200]_vars

FailFastSeen ==
    /\ event.step = "Arrive"
    /\ event.status = 429
    /\ Len(request_queue) = request_queue_maxsize
    /\ BagCardinality(tasks) = request_queue_maxsize

\* C2: a request that finds an entry under the lower-cased username with
\* now - timestamp < 300 is answered with the stored value in the same step;
\* the cache is left as it was and neither an API GET nor a page is started
CacheHit ==
    [][(/\ Arrives
        /\ ~(Len(request_queue) >= request_queue_maxsize)
        /\ Lower(event'.username) \in DOMAIN cache
        /\ now - cache[Lower(event'.username)].timestamp < cache_timeout)
          => /\ event'.status = 200
             /\ event'.body[1].followers.raw
                    = cache[Lower(event'.username)].followers
             /\ cache' = cache
             /\ event'.log = <<>>
             /\ \A t \in BagToSet(tasks') :
                    t \notin BagToSet(tasks) => t.at = "background"
             /\ open_pages' = open_pages]_vars

CacheHitSeen ==
    /\ event.step = "Arrive"
    /\ event.status = 200
    /\ event.username = <<"A">>
    /\ <<"a">> \in DOMAIN cache
    /\ cache[<<"a">>].timestamp < now
    /\ event.body[1].followers.raw = cache[<<"a">>].followers

\* the request taken in finds an entry of age >= 300 s: it is not answered
\* from the cache, the entry is gone and the request waits for its first GET
StaleIsMiss ==
    (/\ Arrives
     /\ ~(Len(request_queue) >= request_queue_maxsize)
     /\ Lower(event'.username) \in DOMAIN cache
     /\ now - cache[Lower(event'.username)].timestamp >= cache_timeout)
       => /\ event'.status = 0
          /\ Lower(event'.username) \notin DOMAIN cache'
          /\ tasks' = tasks (+) Put(Task(event'.username, "api", 1, None,
                                         <<>>, "stale"))

\* the value a request answers with after a stale lookup is the one its own
\* strategies produced
StaleNotReturned ==
    (event'.lookup = "stale" /\ event'.status = 200)
       => /\ event'.log # <<>>
          /\ event'.body[1].followers.raw = Last(event'.log).got

\* C3 as stated: a lookup of an entry of age >= 300 s is a miss that deletes
\* the entry before any strategy runs, the stale value is never returned,
\* and when the extraction then fails the key is absent from the cache
StaleEvictedForGood ==
    [][/\ StaleIsMiss
       /\ StaleNotReturned
       /\ (event'.lookup = "stale" /\ event'.status = 404)
             => Lower(event'.username) \notin DOMAIN cache']_vars

\* C3: a lookup of an entry of age >= 300 s is a miss that deletes the entry
\* before any strategy runs, the stale value is never returned, and when the
\* extraction then fails the request stores nothing: the key is absent
\* unless another request for it has stored a value meanwhile
StaleEvicted ==
    [][/\ StaleIsMiss
       /\ StaleNotReturned
       /\ (event'.lookup = "stale" /\ event'.status = 404)
             => cache' = cache]_vars

StaleEvictedSeen ==
    /\ event.lookup = "stale"
    /\ event.status = 404
    /\ Lower(event.username) \notin DOMAIN cache
    /\ now >= cache_timeout

\* no step of the request produced a value
AllFailed(e) == Answered(e) /\ \A j \in DOMAIN e.log : e.log[j].got = None

\* C4 as stated: a request with no valid cache entry whose every strategy
\* fails is answered 404, never 200 and never 500
NotFoundOnly == AllFailed(event) => event.status = 404

\* C4: a request with no valid cache entry whose every strategy fails is
\* answered 404, or 500 when closing its page raises; never 200
NotFound ==
    AllFailed(event) =>
        \/ event.status = 404
        \/ event.status = 500 /\ event.step = "CloseStep" /\ event.error # ""

NotFoundSeen ==
    /\ event.status = 404
    /\ Len(event.log) = api_urls + 2 + selectors + 1 + Len(patterns)
    /\ AllFailed(event)

\* C6 as stated: an exception that leaves the handler is answered 500 with
\* the exception's message as the detail
InternalErrorVerbatim ==
    event.error # "" => event.status = 500 /\ event.detail = event.error

\* C6: an exception that leaves the handler is answered 500 with the fixed
\* detail "Internal server error", whatever its message
InternalError ==
    event.error # "" =>
        event.status = 500 /\ event.detail = "Internal server error"

InternalErrorSeen ==
    /\ event.status = 500
    /\ event.error = "Connection closed"
    /\ event.step = "CloseStep"

(***************************************************************************)
(* The strategies.  The log of a request lists the steps it has made.      *)
(***************************************************************************)
\* the logs of the requests in flight and of the request just answered
Logs == {t.log : t \in Running} \cup {event.log}

LogEntries == UNION {Range(log) : log \in Logs}

\* every value an extraction has produced, a cache entry holds or a 200
\* reports as followers.raw
RawValues ==
    {e.got : e \in {x \in LogEntries : x.got # None}}
        \cup {t.result : t \in {x \in Running : x.result # None}}
        \cup {cache[k].followers : k \in DOMAIN cache}
        \cup (IF event.status = 200
              THEN {event.body[1].followers.raw} ELSE {})

\* digits, or digits and one suffix
DigitsAndSuffix(v) ==
    \/ IsDigit(v)
    \/ /\ Len(v) >= 2
       /\ IsDigit(SubSeq(v, 1, Len(v) - 1))
       /\ v[Len(v)] \in Suffixes

\* [\d,.]+[KMBkmb]?
CountAndSuffix(v) ==
    LET Count(w) ==
            w # <<>> /\ \A i \in DOMAIN w : IsDigitChar(w[i]) \/ w[i] \in {",", "."}
    IN  \/ Count(v)
        \/ Len(v) >= 2 /\ Count(SubSeq(v, 1, Len(v) - 1)) /\ v[Len(v)] \in Suffixes

\* C7 as stated: every raw value extracted, cached or reported is a digit
\* string, or a digit string followed by one of K, M, B, k, m, b
RawIsDigitsAndSuffix == \A v \in RawValues : DigitsAndSuffix(v)

\* C7: every raw value extracted, cached or reported is a non-empty string
\* over digits, ",", "." and K, M, B, k, m, b: digits from the API probe and
\* the two followerCount regexes, any such string from a selector, and a
\* string of digits, "," and "." with at most one suffix from the third regex
RawShape ==
    /\ \A v \in RawValues : v # <<>> /\ \A i \in DOMAIN v : v[i] \in CountChars
    /\ \A e \in LogEntries :
          e.got # None =>
              CASE e.step = "api" -> IsDigit(e.got)
                [] e.step = "regex" /\ e.i < 3 -> IsDigit(e.got)
                [] e.step = "regex" /\ e.i = 3 -> CountAndSuffix(e.got)
                [] OTHER -> e.step = "selector"

RawShapeSeen ==
    /\ event.status = 200
    /\ event.body[1].followers.raw = <<"1", ".", "5", "M">>
    /\ \E k \in DOMAIN cache : cache[k].followers = <<"1", ".", "5", "M">>

\* the steps of the chain in the order of the code
Chain ==
    [i \in 1..api_urls |-> <<"api", i>>]
        \o << <<"new_page", 0>>, <<"goto", 0>> >>
        \o [i \in 1..selectors |-> <<"selector", i>>]
        \o << <<"content", 0>> >>
        \o [i \in 1..Len(patterns) |-> <<"regex", i>>]

Place(e) == CHOOSE n \in DOMAIN Chain : Chain[n] = <<e.step, e.i>>

PageHolders ==
    {t \in Running : t.at \in {"goto", "selector", "content", "close"}}

\* C9: a request makes its steps in the order API endpoints, page,
\* selectors, regexes, and makes none after a step that produced a value;
\* only requests past the API probe hold a page
StopsAtFirstSuccess ==
    /\ \A log \in Logs : \A j \in 1..(Len(log) - 1) :
          /\ log[j].got = None
          /\ Place(log[j]) < Place(log[j + 1])
    /\ open_pages = BagCardinality([t \in PageHolders |-> tasks[t]])
    /\ \A t \in PageHolders :
          Len(t.log) > api_urls /\ t.log[api_urls + 1].step = "new_page"

StopsAtFirstSuccessSeen ==
    /\ event.status = 200
    /\ Len(event.log) = api_urls + 2 + 2
    /\ Last(event.log) = Entry("selector", 2, <<"1", ".", "5", "M">>)
    /\ open_pages = 0

\* a request starts at the first API endpoint and skips no step
NoStepSkipped(log) ==
    /\ log # <<>> => Place(log[1]) = 1
    /\ \A j \in 1..(Len(log) - 1) : Place(log[j + 1]) = Place(log[j]) + 1

\* C10 as stated: a step that fails is followed by the next step of the
\* chain, so a request that gets no value has gone through to the scan of
\* the page source, and no failure of a step is answered as an error
ChainNeverAborts ==
    /\ \A log \in Logs : NoStepSkipped(log)
    /\ AllFailed(event) => Last(event.log).step \in {"content", "regex"}
    /\ event.status = 500 => event.step = "CloseStep"

\* C10: a failing API endpoint is followed by the next endpoint and then the
\* page, a failing selector by the next selector and then the scan of the
\* page source, and no failure of a step is answered as an error; a failure
\* to open or load the page ends the probe of the page with no value
ChainGoesOn ==
    /\ \A log \in Logs : NoStepSkipped(log)
    /\ AllFailed(event) =>
          Last(event.log).step \in {"new_page", "goto", "content", "regex"}
    /\ \A t \in Running :
          (t.at = "close" /\ t.result = None) =>
              Last(t.log).step \in {"goto", "content", "regex"}
    /\ event.status = 500 => event.step = "CloseStep"

ChainGoesOnSeen ==
    /\ event.status = 200
    /\ Len(event.log) = api_urls + 2 + selectors + 1 + 2
    /\ Last(event.log) = Entry("regex", 2, <<"1", "2">>)

(***************************************************************************)
(* The sweep.                                                              *)
(***************************************************************************)
Age(entry) == now - entry.timestamp

\* C11: right after cleanup_expired_cache the cache holds no entry of age
\* above 300 s, and every entry that was of age below 300 s when the sweep
\* ran is there with its value and timestamp
SweepInvariant ==
    event.step = "BackgroundStep" =>
        /\ \A k \in DOMAIN cache : ~(Age(cache[k]) > cache_timeout)
        /\ \A k \in DOMAIN arg :
              Age(arg[k]) < cache_timeout =>
                  k \in DOMAIN cache /\ cache[k] = arg[k]

SweepInvariantSeen ==
    /\ event.step = "BackgroundStep"
    /\ \E k \in DOMAIN arg : Age(arg[k]) > cache_timeout /\ k \notin DOMAIN cache
    /\ \E k \in DOMAIN arg : Age(arg[k]) = cache_timeout
    /\ \E k \in DOMAIN arg : Age(arg[k]) < cache_timeout /\ k \in DOMAIN cache

\* the sweeps scheduled and not yet run
Scheduled(bag) ==
    BagCardinality([t \in {x \in BagToSet(bag) : x.at = "background"} |-> bag[t]])

\* C12: a sweep is scheduled by every step that answers 200 and by no other
\* step, whatever it answers; a sweep runs only once scheduled, so after the
\* response; and an entry leaves the cache only in a sweep or in the lookup
\* of its own key, so the expired entry of another key stays while no
\* request succeeds
SweepTrigger ==
    [][/\ event'.status = 200 => Scheduled(tasks') = Scheduled(tasks) + 1
       /\ event'.status # 200 => Scheduled(tasks') <= Scheduled(tasks)
       /\ Scheduled(tasks') < Scheduled(tasks)
             <=> (event'.step = "BackgroundStep"
                     /\ Scheduled(tasks') = Scheduled(tasks) - 1)
       /\ \A k \in DOMAIN cache \ DOMAIN cache' :
             \/ event'.step = "BackgroundStep"
             \/ /\ event'.step = "Arrive"
                /\ event'.lookup = "stale"
                /\ Lower(event'.username) = k]_vars

SweepTriggerSeen ==
    /\ event.status = 404
    /\ event.username = <<"a">>
    /\ Scheduled(tasks) = 0
    /\ <<"b">> \in DOMAIN cache
    /\ Age(cache[<<"b">>]) >= cache_timeout

(***************************************************************************)
(* Pages.                                                                  *)
(***************************************************************************)
\* the calls of scrape_with_playwright that have not returned
PageAttempts ==
    {t \in Running :
        t.at \in {"new_page", "goto", "selector", "content", "close"}}

\* C13: a page opened by a call of scrape_with_playwright is closed when the
\* call returns, on every path: the open pages are never more than the calls
\* in flight, and there is none when no call is in flight
PageClosure ==
    /\ open_pages >= 0
    /\ open_pages <= BagCardinality([t \in PageAttempts |-> tasks[t]])
    /\ PageAttempts = {} => open_pages = 0

PageClosureSeen ==
    /\ event.step = "CloseStep"
    /\ event.status = 404
    /\ Last(event.log).step = "goto"
    /\ PageAttempts = {}
    /\ open_pages = 0

(***************************************************************************)
(* The cache under concurrent requests.                                    *)
(***************************************************************************)
\* the step taken answers a request 200 with the value it extracted
Extracted == event'.status = 200 /\ event'.lookup # "hit"

\* C14: a request that finds no valid entry for its key misses and starts
\* the chain, whatever other requests for the key are in flight; each one
\* that succeeds stores its value with the time of the store, whatever the
\* cache holds; and an entry changes in no other step, so the entry is that
\* of the later store
NoCoalescing ==
    [][/\ (/\ Arrives
           /\ ~(Len(request_queue) >= request_queue_maxsize)
           /\ \/ Lower(event'.username) \notin DOMAIN cache
              \/ Age(cache[Lower(event'.username)]) >= cache_timeout)
             => /\ event'.status = 0
                /\ \E t \in BagToSet(tasks') :
                      /\ t.username = event'.username
                      /\ t.at = "api" /\ t.i = 1 /\ t.log = <<>>
                      /\ tasks' = tasks (+) Put(t)
       /\ Extracted =>
             /\ Lower(event'.username) \in DOMAIN cache'
             /\ cache'[Lower(event'.username)]
                    = [followers |-> event'.body[1].followers.raw,
                       timestamp |-> now]
       /\ \A k \in DOMAIN cache \cap DOMAIN cache' :
             cache'[k] # cache[k] => Extracted /\ Lower(event'.username) = k]_vars

\* one of two requests that both missed has stored its value, the other one
\* is about to return another
NoCoalescingSeen ==
    /\ event.status = 200
    /\ event.lookup = "absent"
    /\ \E t \in Running :
          /\ Lower(t.username) = Lower(event.username)
          /\ t.lookup = "absent"
          /\ t.at = "close"
          /\ t.result # None
          /\ t.result # cache[Lower(event.username)].followers

\* C16: every cache entry holds a non-empty raw value and the time of its
\* store; a request that extracts no value creates no entry and changes
\* none, so the entry a concurrent request has stored is still there
SuccessesOnly ==
    [][/\ \A k \in DOMAIN cache' :
             /\ Truthy(cache'[k].followers)
             /\ cache'[k].timestamp <= now'
             /\ (k \notin DOMAIN cache \/ cache[k] # cache'[k])
                   => cache'[k].timestamp = now'
       /\ event'.status \in {404, 500} => cache' = cache]_vars

SuccessesOnlySeen ==
    /\ event.status = 404
    /\ event.lookup = "absent"
    /\ Lower(event.username) \in DOMAIN cache
    /\ Age(cache[Lower(event.username)]) < cache_timeout

\* C17: no deletion from the cache fails: the lookup and the sweep delete
\* only keys that are in the cache and expired, no KeyError is raised, and
\* no request is answered 500 in the step that looks its key up
DeletionsNeverFail ==
    [][/\ \A k \in DOMAIN cache \ DOMAIN cache' :
             Age(cache[k]) >= cache_timeout
       /\ event'.error # "KeyError"
       /\ event'.step \in {"Arrive", "BackgroundStep"} => event'.status # 500]_vars

\* an entry is evicted by a lookup while a sweep is still to run
DeletionsNeverFailSeen ==
    /\ event.step = "Arrive"
    /\ event.lookup = "stale"
    /\ Lower(event.username) \notin DOMAIN cache
    /\ Scheduled(tasks) >= 1

\* C18: the cached field of every 200 is true, for a value served from the
\* cache and for one this request extracted
CachedAlwaysTrue == event.status = 200 => event.body[1].cached = TRUE

CachedAlwaysTrueSeen ==
    /\ event.status = 200
    /\ event.lookup = "absent"
    /\ event.username = <<"A">>
    /\ event.log # <<>>
    /\ event.body[1].cached = TRUE


\* the requests that were admitted to the queue and are not yet answered
Admitted(bag) ==
    BagCardinality([t \in {x \in BagToSet(bag) : x.at # "background"} |->
                        bag[t]])

\* C15: after every step the queue holds one entry for each request that was
\* admitted and is not yet answered, at most 10 in all, and none when no
\* request is in flight; an admitted request that suspends adds one entry,
\* an answer 200, 404 or 500 from a suspended request removes one, a request
\* answered on arrival (400, 429, or admitted and answered at once) and a
\* step of process_queue leave the queue's size as it was.
QueueAccounting ==
    [][/\ Len(request_queue') = Admitted(tasks')
       /\ Len(request_queue') <= request_queue_maxsize
       /\ (Admitted(tasks') = 0 => request_queue' = <<>>)
       /\ (event'.step = "Arrive" /\ event'.status \in {400, 429}
              => request_queue' = request_queue)
       /\ (event'.step = "Arrive" /\ event'.status \in {200, 500}
              => Len(request_queue') = Len(request_queue))
       /\ (event'.step = "Arrive" /\ event'.status = 0
              => request_queue' = Append(request_queue, event'.username))
       /\ (event'.step # "Arrive" /\ event'.status \in {200, 404, 500}
              => /\ request_queue # <<>>
                 /\ request_queue' = Tail(request_queue))
       /\ (event'.step = "ProcessQueueStep"
              => request_queue' = request_queue /\ tasks' = tasks)]_vars

\* a suspended request was answered 500 and left a queue that was full,
\* while process_queue was in its one-second delay
QueueAccountingSeen ==
    /\ event.step = "CloseStep"
    /\ event.status = 500
    /\ Len(request_queue) = request_queue_maxsize - 1
    /\ queue_task = "delay"

\* the followed request is admitted and not yet answered
Waiting == Handlers(FollowedUser) # {}

\* the step taken answers the followed request
Answers == event'.username = FollowedUser /\ event'.status # 0

\* C19: the followed request, once admitted, is eventually answered; it is
\* answered by no step while its handler stays in flight and by the step in
\* which its handler ends, with 200, 404 or 500 and one entry fewer in the
\* queue; every arrival is either answered in its own step with 200, 400,
\* 429 or 500 or admitted as a handler; and a full queue is eventually not
\* full.
EventuallyAnswered ==
    /\ Waiting ~> ~Waiting
    /\ [][/\ (Waiting /\ Waiting' => ~Answers)
          /\ (Waiting /\ ~Waiting'
                => /\ Answers
                   /\ event'.status \in {200, 404, 500}
                   /\ Len(request_queue') = Len(request_queue) - 1)
          /\ (event'.step = "Arrive"
                => \/ /\ event'.status \in {200, 400, 429, 500}
                      /\ Admitted(tasks') = Admitted(tasks)
                   \/ /\ event'.status = 0
                      /\ Admitted(tasks') = Admitted(tasks) + 1)]_vars
    /\ Full(request_queue) ~> ~Full(request_queue)

\* the followed request was answered 200 by scraping while the other
\* requests kept the queue full
EventuallyAnsweredSeen ==
    /\ ~Waiting
    /\ event.username = FollowedUser
    /\ event.step = "CloseStep"
    /\ event.status = 200
    /\ Len(request_queue) = request_queue_maxsize - 1

====
